---- MODULE Spec2Model ----
(***************************************************************************)
(* Model of DoubleMLPQ (src/doubleml/double_ml_pq.py): the constructor's   *)
(* checks, the nested cross-fitting loop of _nuisance_est, _nuisance_tuning *)
(* and the multiplier bootstrap exercised by the repository's tests.       *)
(*                                                                         *)
(* Numbers.  Probabilities are binary floating-point numbers with          *)
(* MantissaBits significant bits, written as integers in units of          *)
(* 2^-(2*MantissaBits); One is 1.0.  Outcomes y and candidate thetas are   *)
(* integers.  The sign of the IPW moment is computed exactly.              *)
(***************************************************************************)
EXTENDS Integers, Sequences, FiniteSets, TLC

VARIABLES
    cfg,            \* the constructed object's configuration and data (fixed after __init__)
    pc,             \* position of the caller: "idle", "split", "prelim", "fit", "final", "returned", "raised"
    err,            \* the exception that ended the call, "" if none
    rep,            \* number of passes of _nuisance_est started on this object
    i_fold,         \* loop variable of _nuisance_est
    g_hat,          \* local array g_hat of _nuisance_est
    m_hat,          \* local array m_hat of _nuisance_est
    coef_start_val, \* self._coef_start_val
    fit_count,      \* number of fit() calls received by the instances in self._learner
    fold,           \* what the last loop iteration computed (its locals)
    writes,         \* per row, how often g_hat / m_hat were assigned in this pass
    psi_elements,   \* the bundle returned by _nuisance_est, or NoBundle
    tune,           \* the last _nuisance_tuning call: its arguments and how it ended
    ctor,           \* constructor run: arguments, position, fields set so far
    boot,           \* bootstrap run: fitted object, random state, draws
    evals           \* score evaluations: the arrays of the bundle, the calls made

vars == <<cfg, pc, err, rep, i_fold, g_hat, m_hat, coef_start_val, fit_count,
          fold, writes, psi_elements, tune, ctor, boot, evals>>

\* The variables of the estimation itself.
nuisance_vars == <<cfg, pc, err, rep, i_fold, g_hat, m_hat, coef_start_val,
                   fit_count, fold, writes, psi_elements, tune>>

(***************************************************************************)
(* Bounds of the model.                                                    *)
(***************************************************************************)
MantissaBits == 3
MaxRep == 2

(***************************************************************************)
(* Floating point.                                                         *)
(***************************************************************************)
One == 2 ^ (2 * MantissaBits)
Half == One \div 2
NaN == 0 - 1

RECURSIVE Msb(_)
Msb(x) == IF x < 2 THEN 1 ELSE 2 * Msb(x \div 2)

\* x rounded to MantissaBits significant bits, ties to even.
Fl(x) ==
    IF x <= 0 THEN 0
    ELSE LET ulp == Msb(x) \div (2 ^ (MantissaBits - 1))
         IN  IF ulp <= 1 THEN x
             ELSE LET q == x \div ulp
                      r == x % ulp
                  IN  IF 2 * r < ulp THEN q * ulp
                      ELSE IF 2 * r > ulp THEN (q + 1) * ulp
                      ELSE IF q % 2 = 0 THEN q * ulp ELSE (q + 1) * ulp

\* The floating-point value of 1 - p.
Sub1(p) == Fl(One - p)

\* Trimming thresholds used: the smallest positive number (1 - tau rounds to
\* 1), a power of two (1 - tau is exact), and one whose 1 - tau rounds up.
TauExact == 2 ^ MantissaBits
TauRoundsUp == 2 ^ MantissaBits + 2 ^ (MantissaBits - 2)
TauSet == {1, TauExact, TauRoundsUp}

\* _trimm(preds, 'truncate', tau), element-wise.
Trimm(p, tau) ==
    IF p < tau THEN tau
    ELSE IF p > Sub1(tau) THEN Sub1(tau)
    ELSE p

(***************************************************************************)
(* Data sets: 16 rows, treatment d, covariate x, outcome y.  A: the        *)
(* covariate carries no information; B: it determines the treatment; C, D: *)
(* the second half of the rows holds one treatment level only.             *)
(***************************************************************************)
Datasets ==
    [ A |-> [ d |-> <<1,1,1,1,0,0,0,0, 1,1,1,1,0,0,0,0>>,
              x |-> <<0,0,0,0,0,0,0,0, 0,0,0,0,0,0,0,0>>,
              y |-> <<4,12,20,28,8,16,24,40, 0,8,16,32,4,12,20,36>> ],
      B |-> [ d |-> <<1,1,1,1,0,0,0,0, 1,1,1,1,0,0,0,0>>,
              x |-> <<1,1,1,1,0,0,0,0, 1,1,1,1,0,0,0,0>>,
              y |-> <<0,8,8,24,4,16,28,40, 4,12,20,36,8,8,24,32>> ],
      C |-> [ d |-> <<1,1,1,1,0,0,0,0, 0,0,0,0,0,0,0,0>>,
              x |-> <<1,1,0,0,1,1,0,0, 0,0,0,0,0,0,0,0>>,
              y |-> <<4,12,20,28,8,16,24,40, 0,8,16,32,4,12,20,36>> ],
      D |-> [ d |-> <<1,1,1,1,0,0,0,0, 1,1,1,1,1,1,1,1>>,
              x |-> <<1,1,0,0,1,1,0,0, 0,0,0,0,0,0,0,0>>,
              y |-> <<4,12,20,28,8,16,24,40, 0,8,16,32,4,12,20,36>> ] ]

DatasetNames == {"A", "B", "C", "D"}

\* Sample splits: standard 2-fold, and a custom split whose test sets overlap,
\* leave rows uncovered, and whose second fold tests on rows it trains on.
SmplsSet ==
    { << [train |-> 9..16, test |-> 1..8], [train |-> 1..8, test |-> 9..16] >>,
      << [train |-> 9..16, test |-> 1..8], [train |-> 9..16, test |-> 5..12] >> }

Quantiles == { <<1, 2>>, <<1, 4>> }

d == Datasets[cfg.ds].d
x == Datasets[cfg.ds].x
y == Datasets[cfg.ds].y
n_obs == Len(d)
Rows == 1..n_obs
n_folds == Len(cfg.smpls)

(***************************************************************************)
(* Generic helpers.                                                        *)
(***************************************************************************)
RECURSIVE SumOver(_, _)
SumOver(S, f) ==
    IF S = {} THEN 0
    ELSE LET r == CHOOSE r \in S : TRUE IN f[r] + SumOver(S \ {r}, f)

Max(a, b) == IF a >= b THEN a ELSE b
Min(a, b) == IF a <= b THEN a ELSE b
Abs(a) == IF a < 0 THEN 0 - a ELSE a
Sign(a) == IF a > 0 THEN 1 ELSE IF a < 0 THEN 0 - 1 ELSE 0

RECURSIVE SortAsc(_)
SortAsc(s) ==
    IF Len(s) = 0 THEN <<>>
    ELSE LET i == CHOOSE i \in 1..Len(s) : \A j \in 1..Len(s) : s[i] <= s[j]
         IN  <<s[i]>> \o SortAsc([k \in 1..(Len(s) - 1) |-> IF k < i THEN s[k] ELSE s[k + 1]])

\* np.quantile(ys, qn/qd), linear interpolation between order statistics.
NpQuantile(ys, qn, qd) ==
    LET s == SortAsc(ys)
        h == qn * (Len(s) - 1)
        lo == h \div qd
        fr == h % qd
    IN  IF fr = 0 THEN s[lo + 1]
        ELSE s[lo + 1] + (fr * (s[lo + 2] - s[lo + 1])) \div qd

SeqMin(s) == CHOOSE v \in {s[i] : i \in 1..Len(s)} : \A j \in 1..Len(s) : v <= s[j]
SeqMax(s) == CHOOSE v \in {s[i] : i \in 1..Len(s)} : \A j \in 1..Len(s) : v >= s[j]

\* line 146: self._coef_bounds; line 147: the initial self._coef_start_val.
CoefBounds == cfg.coef_bounds
CoefStartInit == cfg.coef_start_init

ClassCount(S, c) == Cardinality({r \in S : d[r] = c})

(***************************************************************************)
(* The pseudo-random order.  train_test_split is called with the fixed     *)
(* random_state=42, StratifiedKFold without shuffling: both are functions  *)
(* of their input.  The order the seeded generator gives the rows is one   *)
(* of a family of permutations, fixed for the run: rows are taken by       *)
(* increasing Key.                                                         *)
(***************************************************************************)
ShuffleSet == {1, 3, 5, 16}

Key(r) == (cfg.shuffle * r) % (n_obs + 1)

Rank(S, r) == Cardinality({t \in S : Key(t) < Key(r)})

FirstK(S, k) == {r \in S : Rank(S, r) < k}

ClassRows(S, c) == {r \in S : d[r] = c}

(***************************************************************************)
(* sklearn.model_selection.train_test_split(train, test_size=0.5,          *)
(* random_state=42, stratify=d[train]): the set of (train_1, train_2) the  *)
(* stratified half split can return (more than one when the class counts   *)
(* of the halves tie); empty when it raises ValueError.                    *)
(***************************************************************************)
ApproxModeCounts(S, n_draw) ==
    LET n == Cardinality(S)
        c0 == ClassCount(S, 0)
        c1 == ClassCount(S, 1)
        f0 == (n_draw * c0) \div n
        f1 == (n_draw * c1) \div n
        r0 == (n_draw * c0) % n
        r1 == (n_draw * c1) % n
    IN  IF f0 + f1 = n_draw THEN { <<f0, f1>> }
        ELSE (IF r0 >= r1 THEN { <<f0 + 1, f1>> } ELSE {})
             \cup (IF r1 >= r0 THEN { <<f0, f1 + 1>> } ELSE {})

TrainTestSplit(train) ==
    LET n == Cardinality(train)
        n_test == (n + 1) \div 2
        n_train == n - n_test
        classes == {c \in {0, 1} : ClassCount(train, c) > 0}
    IN  IF \/ n_train = 0
           \/ \E c \in classes : ClassCount(train, c) < 2
           \/ n_train < Cardinality(classes)
           \/ n_test < Cardinality(classes)
        THEN {}
        ELSE { LET t1 == FirstK(ClassRows(train, 0), cnt[1])
                           \cup FirstK(ClassRows(train, 1), cnt[2])
               IN  <<t1, train \ t1>>
               : cnt \in ApproxModeCounts(train, n_train) }

(***************************************************************************)
(* StratifiedKFold(n_splits).split(train_1, d[train_1]): the assignment    *)
(* row -> test fold; the empty set when it raises ValueError.              *)
(***************************************************************************)
\* allocation[i][c]: members of class c among positions i, i+n_splits, ... of
\* the class-sorted label array (first is the class sorted first).
Allocation(S, n_splits, first) ==
    LET cf == ClassCount(S, first)
    IN  [i \in 0..(n_splits - 1) |->
          [c \in {0, 1} |->
             Cardinality({p \in 0..(Cardinality(S) - 1) :
                             /\ p % n_splits = i
                             /\ (IF c = first THEN p < cf ELSE p >= cf)})]]

RECURSIVE AllocBefore(_, _, _)
AllocBefore(alloc, i, c) ==
    IF i = 0 THEN 0 ELSE alloc[i - 1][c] + AllocBefore(alloc, i - 1, c)

StratifiedKFold(S, n_splits) ==
    IF \/ n_splits > Cardinality(S)
       \/ \A c \in {0, 1} : n_splits > ClassCount(S, c)
    THEN {}
    ELSE LET head == CHOOSE r \in S : Rank(S, r) = 0
             alloc == Allocation(S, n_splits, d[head])
         IN  { [r \in S |->
                  CHOOSE i \in 0..(n_splits - 1) :
                     LET k == Rank(ClassRows(S, d[r]), r)
                     IN  /\ AllocBefore(alloc, i, d[r]) <= k
                         /\ k < AllocBefore(alloc, i + 1, d[r])] }

(***************************************************************************)
(* The learners.  A classifier is modelled as a histogram classifier over  *)
(* the covariate cell: fit() remembers the rows and labels it was given,   *)
(* predict_proba() reports the majority label of the training rows in the  *)
(* cell of the row (of all training rows if the cell is empty) as 0, 1/2   *)
(* or 1.                                                                   *)
(***************************************************************************)
Fit(rows, lab) == [rows |-> rows, lab |-> lab]

PredictProba(model, r) ==
    LET cell == {t \in model.rows : x[t] = x[r]}
        pool == IF cell = {} THEN model.rows ELSE cell
        ones == Cardinality({t \in pool : model.lab[t] = 1})
        zeros == Cardinality({t \in pool : model.lab[t] = 0})
    IN  IF ones > zeros THEN One ELSE IF ones < zeros THEN 0 ELSE Half

\* _predict_zero_one_propensity(learner, x[S, :])
PredictZeroOnePropensity(model, S) == [r \in S |-> PredictProba(model, r)]

\* _dml_cv_predict(ml_m, x_train_1, d_train_1, method='predict_proba',
\* smpls=smpls_prelim)['preds']: a fresh clone per preliminary fold, fitted on
\* the rows of the other folds, predicts the fold's own rows.
CvTrainRows(t1, assign, r) == {t \in t1 : assign[t] # assign[r]}

DmlCvPredict(t1, assign) ==
    [r \in t1 |-> PredictProba(Fit(CvTrainRows(t1, assign, r), [t \in Rows |-> d[t]]), r)]

(***************************************************************************)
(* Propensities used as divisors.                                          *)
(***************************************************************************)
\* lines 287-289: trim, then invert for treatment 0.
MHatPrelim(p) ==
    LET t == Trimm(p, cfg.tau)
    IN  IF cfg.treatment = 0 THEN Sub1(t) ELSE t

\* lines 321-324: invert for treatment 0, then trim.  NaN stays NaN.
MHatFinal(p) ==
    IF p = NaN THEN NaN
    ELSE Trimm(IF cfg.treatment = 0 THEN Sub1(p) ELSE p, cfg.tau)

(***************************************************************************)
(* The IPW moment  mean((d == treatment) / prop * (y <= theta) - quantile) *)
(* over train_1, times a positive constant, as an integer.                 *)
(***************************************************************************)
\* A common multiple of every propensity value the model can produce.
Lcm == One * 5 * (2 ^ MantissaBits - 1)

\* Some entry of the moment is 0/0 or inf*0.
IpwIsNaN(t1, prop) == \E r \in t1 : prop[r] = 0

IpwScore(theta, t1, prop) ==
    LET w == [r \in t1 |->
                IF d[r] = cfg.treatment /\ y[r] <= theta THEN Lcm \div prop[r] ELSE 0]
    IN  cfg.qd * SumOver(t1, w) - Cardinality(t1) * cfg.qn * (Lcm \div One)

(***************************************************************************)
(* _get_bracket_guess(ipw_score, coef_start, coef_bounds): widen an        *)
(* interval around the start value, clipped to the bounds, until the       *)
(* moment has different signs at its ends.                                 *)
(***************************************************************************)
BracketSteps == 10

BracketAt(j, start) ==
    LET lo == CoefBounds[1]
        hi == CoefBounds[2]
        w == (j * (hi - lo)) \div (2 * BracketSteps)
    IN  <<Max(start - w, lo), Min(start + w, hi)>>

GetBracketGuess(t1, prop, start) ==
    IF IpwIsNaN(t1, prop) THEN BracketAt(1, start) ELSE
    LET good == {j \in 1..BracketSteps :
                    Sign(IpwScore(BracketAt(j, start)[1], t1, prop))
                       # Sign(IpwScore(BracketAt(j, start)[2], t1, prop))}
        j == IF good = {} THEN BracketSteps
             ELSE CHOOSE k \in good : \A k2 \in good : k <= k2
    IN  BracketAt(j, start)

(***************************************************************************)
(* root_scalar(ipw_score, bracket=(a, b), method='brentq').root: the set   *)
(* of values it can return; empty when it raises.  An end point where the  *)
(* moment is zero is returned as it is; otherwise the bracket is narrowed  *)
(* to a zero of the moment or to its jump, where the side with the smaller *)
(* absolute value is returned.                                             *)
(***************************************************************************)
RECURSIVE Narrow(_, _, _, _)
Narrow(t1, prop, a, b) ==
    LET fa == IpwScore(a, t1, prop)
        fb == IpwScore(b, t1, prop)
    IN  IF b - a <= 1
        THEN IF Abs(fa) < Abs(fb) THEN {a}
             ELSE IF Abs(fb) < Abs(fa) THEN {b}
             ELSE {a, b}
        ELSE LET m == (a + b) \div 2
                 fm == IpwScore(m, t1, prop)
             IN  IF fm = 0 THEN {m}
                 ELSE IF Sign(fm) = Sign(fa) THEN Narrow(t1, prop, m, b)
                 ELSE Narrow(t1, prop, a, m)

RootScalar(t1, prop, bracket) ==
    LET a == bracket[1]
        b == bracket[2]
        fa == IpwScore(a, t1, prop)
        fb == IpwScore(b, t1, prop)
    IN  IF IpwIsNaN(t1, prop) THEN {}
        ELSE IF Sign(fa) * Sign(fb) > 0 THEN {}
        ELSE IF fa = 0 THEN {a}
        ELSE IF fb = 0 THEN {b}
        ELSE Narrow(t1, prop, a, b)

(***************************************************************************)
(* One iteration of the fold loop of _nuisance_est (lines 270-319), in     *)
(* three steps: the two nested splits, the preliminary estimate, the fits. *)
(* Each operator gives every way its step can end.                         *)
(***************************************************************************)
EmptyFn == [r \in {} |-> 0]

NoFold ==
    [status |-> "none", err |-> "", i |-> 0, prev_ipw_est |-> NaN,
     train |-> {}, test |-> {},
     train_1 |-> {}, train_2 |-> {}, assign |-> EmptyFn,
     prelim_fit_rows |-> {}, p_prelim |-> EmptyFn, m_hat_prelim |-> EmptyFn,
     start_used |-> NaN, bracket |-> <<>>, roots |-> {}, ipw_est |-> NaN,
     indep_roots |-> {}, rows_g |-> {}, rows_m |-> {},
     g_pred |-> EmptyFn, m_pred |-> EmptyFn]

\* lines 271-278: train_test_split, then StratifiedKFold on train_1.
SplitOutcomes(i, prev, train, test) ==
    LET o == [NoFold EXCEPT !.i = i, !.prev_ipw_est = prev, !.train = train, !.test = test]
        splits == TrainTestSplit(train)
    IN  IF splits = {}
        THEN { [o EXCEPT !.status = "raised", !.err = "ValueError: train_test_split"] }
        ELSE UNION {
           LET o2 == [o EXCEPT !.train_1 = sp[1], !.train_2 = sp[2]]
               folds == StratifiedKFold(sp[1], n_folds)
           IN  IF folds = {}
               THEN { [o2 EXCEPT !.status = "raised", !.err = "ValueError: StratifiedKFold"] }
               ELSE { [o2 EXCEPT !.status = "split", !.assign = a] : a \in folds }
           : sp \in splits }

\* lines 280-300: out-of-fold propensities on train_1, trimmed and inverted,
\* the bracket around the start value, the root of the IPW moment.  A moment
\* that is NaN (a zero divisor) makes the solver raise or return an end of
\* the bracket, depending on the scipy version.  When train_1 holds one
\* treatment level only, a learner may report a single probability column,
\* and taking the second one raises.  indep_roots is what the same search
\* returns when started from the initial start value instead.
PrelimOutcomes(o, start) ==
    LET t1 == o.train_1
        p == DmlCvPredict(t1, o.assign)
        prop == [r \in t1 |-> MHatPrelim(p[r])]
        bracket == GetBracketGuess(t1, prop, start)
        roots == RootScalar(t1, prop, bracket)
        o2 == [o EXCEPT
                 !.prelim_fit_rows = UNION {CvTrainRows(t1, o.assign, r) : r \in t1},
                 !.p_prelim = p, !.m_hat_prelim = prop,
                 !.start_used = start, !.bracket = bracket, !.roots = roots,
                 !.indep_roots = RootScalar(t1, prop, GetBracketGuess(t1, prop, CoefStartInit))]
        one_class == \E c \in {0, 1} : ClassCount(t1, c) = 0
    IN  (IF one_class
         THEN { [o EXCEPT !.status = "raised", !.err = "IndexError: predict_proba"] }
         ELSE {})
        \cup
        (IF IpwIsNaN(t1, prop)
         THEN { [o2 EXCEPT !.status = "raised", !.err = "ValueError: root_scalar"] }
              \cup { [o2 EXCEPT !.status = "prelim", !.ipw_est = r] : r \in {bracket[1], bracket[2]} }
         ELSE IF roots = {}
         THEN { [o2 EXCEPT !.status = "raised", !.err = "ValueError: root_scalar"] }
         ELSE { [o2 EXCEPT !.status = "prelim", !.ipw_est = r] : r \in roots })

GFitRows_All(t2) == t2

\* lines 310-312: ml_g is fitted on the rows of train_2 at the target level.
GFitRows(t2) == {r \in t2 : d[r] = cfg.treatment}

MFitRows_WithTest(train) == train \cup cfg.smpls[i_fold + 1].test

\* line 318: ml_m is fitted on the whole train set.
MFitRows(train) == train

\* line 312: the binary targets of ml_g.
GTargets(ipw_est) == [r \in Rows |-> IF y[r] <= ipw_est THEN 1 ELSE 0]

\* lines 305-319: fit ml_g and ml_m, predict the test rows.
FitOutcome(o) ==
    LET rows_g == GFitRows(o.train_2)
        rows_m == MFitRows(o.train)
    IN  IF rows_g = {}
        THEN [o EXCEPT !.status = "raised", !.err = "ValueError: ml_g.fit on 0 samples",
                       !.rows_g = rows_g]
        ELSE [o EXCEPT !.status = "done", !.rows_g = rows_g, !.rows_m = rows_m,
                       !.g_pred = PredictZeroOnePropensity(Fit(rows_g, GTargets(o.ipw_est)), o.test),
                       !.m_pred = PredictZeroOnePropensity(Fit(rows_m, [t \in Rows |-> d[t]]), o.test)]

AssignTest_SkipFirst(arr, test, preds) ==
    [r \in Rows |-> IF r \in test /\ (\E t \in test : t < r) THEN preds[r] ELSE arr[r]]

\* lines 315, 319: arr[test_inds] = preds
AssignTest(arr, test, preds) == [r \in Rows |-> IF r \in test THEN preds[r] ELSE arr[r]]

NextStartVal_Keep(old, ipw_est) == old

\* line 303: self._coef_start_val = ipw_est
NextStartVal(old, ipw_est) == ipw_est

AllNaN == [r \in Rows |-> NaN]
NoWrites == [r \in Rows |-> 0]
NoBundle == [returned |-> FALSE]

(***************************************************************************)
(* The state after construction, and the operations.                       *)
(***************************************************************************)
CtorOff == [pc |-> "off"]
BootOff == [pc |-> "off"]
EvalsOff == [pc |-> "off"]

InitEst ==
    /\ \E ds \in DatasetNames, treatment \in {0, 1}, tau \in TauSet,
          q \in Quantiles, smpls \in SmplsSet, shuffle \in ShuffleSet :
          cfg = [ds |-> ds, treatment |-> treatment, tau |-> tau, shuffle |-> shuffle,
                 qn |-> q[1], qd |-> q[2], smpls |-> smpls,
                 coef_bounds |-> <<SeqMin(Datasets[ds].y), SeqMax(Datasets[ds].y)>>,
                 coef_start_init |-> NpQuantile(Datasets[ds].y, q[1], q[2])]
    /\ pc = "idle"
    /\ err = ""
    /\ rep = 0
    /\ i_fold = 0
    /\ g_hat = AllNaN
    /\ m_hat = AllNaN
    /\ coef_start_val = CoefStartInit
    /\ fit_count = [ml_g |-> 0, ml_m |-> 0]
    /\ fold = NoFold
    /\ writes = [g |-> NoWrites, m |-> NoWrites]
    /\ psi_elements = NoBundle
    /\ tune = [called |-> FALSE, search_mode |-> "", tune_on_folds |-> FALSE,
               ended |-> ""]

Init ==
    /\ InitEst
    /\ ctor = CtorOff
    /\ boot = BootOff
    /\ evals = EvalsOff

\* lines 259-267: a pass of _nuisance_est starts (a repetition of fit()).
BeginNuisanceEst ==
    /\ pc \in {"idle", "returned"}
    /\ rep < MaxRep
    /\ rep' = rep + 1
    /\ pc' = "split"
    /\ i_fold' = 0
    /\ g_hat' = AllNaN
    /\ m_hat' = AllNaN
    /\ writes' = [g |-> NoWrites, m |-> NoWrites]
    /\ fold' = [NoFold EXCEPT !.prev_ipw_est = IF fold.ipw_est = NaN THEN fold.prev_ipw_est
                                                ELSE fold.ipw_est]
    /\ psi_elements' = NoBundle
    /\ UNCHANGED <<cfg, err, coef_start_val, fit_count, tune, ctor, boot, evals>>

\* lines 270-278
SplitStep ==
    /\ pc = "split"
    /\ \E o \in SplitOutcomes(i_fold, IF fold.ipw_est = NaN THEN fold.prev_ipw_est
                                         ELSE fold.ipw_est,
                              cfg.smpls[i_fold + 1].train, cfg.smpls[i_fold + 1].test) :
          /\ fold' = o
          /\ pc' = IF o.status = "raised" THEN "raised" ELSE "prelim"
          /\ err' = o.err
    /\ UNCHANGED <<cfg, rep, i_fold, g_hat, m_hat, coef_start_val, fit_count, writes,
                   psi_elements, tune, ctor, boot, evals>>

\* lines 280-303
PrelimStep ==
    /\ pc = "prelim"
    /\ \E o \in PrelimOutcomes(fold, coef_start_val) :
          /\ fold' = o
          /\ pc' = IF o.status = "raised" THEN "raised" ELSE "fit"
          /\ err' = o.err
          /\ coef_start_val' = IF o.status = "raised" THEN coef_start_val
                               ELSE NextStartVal(coef_start_val, o.ipw_est)
    /\ UNCHANGED <<cfg, rep, i_fold, g_hat, m_hat, fit_count, writes, psi_elements,
                   tune, ctor, boot, evals>>

\* lines 305-319
FitStep ==
    /\ pc = "fit"
    /\ LET o == FitOutcome(fold)
       IN  /\ fold' = o
           /\ err' = o.err
           /\ IF o.status = "raised"
              THEN /\ pc' = "raised"
                   /\ UNCHANGED <<i_fold, g_hat, m_hat, writes, fit_count>>
              ELSE /\ fit_count' = [ml_g |-> fit_count.ml_g + 1, ml_m |-> fit_count.ml_m + 1]
                   /\ g_hat' = AssignTest(g_hat, o.test, o.g_pred)
                   /\ m_hat' = AssignTest(m_hat, o.test, o.m_pred)
                   /\ writes' = [g |-> [r \in Rows |-> writes.g[r] + (IF r \in o.test THEN 1 ELSE 0)],
                                 m |-> [r \in Rows |-> writes.m[r] + (IF r \in o.test THEN 1 ELSE 0)]]
                   /\ i_fold' = i_fold + 1
                   /\ pc' = IF i_fold + 1 = n_folds THEN "final" ELSE "split"
    /\ UNCHANGED <<cfg, rep, coef_start_val, psi_elements, tune, ctor, boot, evals>>

\* lines 321-329: invert and clip m_hat, return the score elements.
ReturnScoreElements ==
    /\ pc = "final"
    /\ m_hat' = [r \in Rows |-> MHatFinal(m_hat[r])]
    /\ psi_elements' = [returned |-> TRUE,
                        ind_d |-> [r \in Rows |-> d[r] = cfg.treatment],
                        g |-> g_hat, m |-> m_hat', y |-> y]
    /\ pc' = "returned"
    /\ UNCHANGED <<cfg, err, rep, i_fold, g_hat, coef_start_val, fit_count, fold,
                   writes, tune, ctor, boot, evals>>

NuisanceTuning_Returns ==
    /\ pc \in {"idle", "returned"}
    /\ \E mode \in {"grid_search", "randomized_search"}, on_folds \in BOOLEAN :
          tune' = [called |-> TRUE, search_mode |-> mode, tune_on_folds |-> on_folds,
                   ended |-> "returned"]
    /\ fit_count' = [ml_g |-> fit_count.ml_g + 1, ml_m |-> fit_count.ml_m + 1]
    /\ UNCHANGED <<cfg, pc, err, rep, i_fold, g_hat, m_hat, coef_start_val,
                   fold, writes, psi_elements, ctor, boot, evals>>

\* lines 331-333: _nuisance_tuning raises for every argument combination.
NuisanceTuning ==
    /\ pc \in {"idle", "returned"}
    /\ \E mode \in {"grid_search", "randomized_search"}, on_folds \in BOOLEAN :
          tune' = [called |-> TRUE, search_mode |-> mode, tune_on_folds |-> on_folds,
                   ended |-> "NotImplementedError"]
    /\ pc' = "raised"
    /\ err' = "NotImplementedError"
    /\ UNCHANGED <<cfg, rep, i_fold, g_hat, m_hat, coef_start_val, fit_count,
                   fold, writes, psi_elements, ctor, boot, evals>>

Next ==
    \/ BeginNuisanceEst
    \/ SplitStep
    \/ PrelimStep
    \/ FitStep
    \/ ReturnScoreElements
    \/ NuisanceTuning

Spec == Init /\ [][Next]_vars

(***************************************************************************)
(* DoubleMLPQ.__init__ (lines 100-167).  An argument is a typed value; a   *)
(* number is kept in tenths.  Every check gives the exception it raises,   *)
(* "" when it passes; the checks run in the order of the code and the      *)
(* first one that fails ends the constructor.                              *)
(***************************************************************************)
PyFloat(v) == [type |-> "float", nan |-> FALSE, v |-> v]
FloatNaN == [type |-> "float", nan |-> TRUE, v |-> 0]
PyInt(v) == [type |-> "int", nan |-> FALSE, v |-> 10 * v]
PyBool(b) == [type |-> "bool", nan |-> FALSE, v |-> IF b THEN 10 ELSE 0]
PyNone == [type |-> "NoneType", nan |-> FALSE, v |-> 0]

\* isinstance(val, cls): bool is a subclass of int.
IsInstance(val, cls) ==
    IF cls = "int" THEN val.type \in {"int", "bool"} ELSE val.type = cls

\* Comparisons of a number with a constant; every comparison with NaN is false.
Le(val, c) == ~val.nan /\ val.v <= c
Ge(val, c) == ~val.nan /\ val.v >= c

\* The data objects: a DoubleMLData (possibly with instruments, possibly with
\* a treatment that is not 0/1), a DoubleMLClusterData, something else.
DataSet ==
    { [kind |-> "DoubleMLData", z_cols |-> FALSE, d_zero_one |-> TRUE],
      [kind |-> "DoubleMLData", z_cols |-> TRUE, d_zero_one |-> TRUE],
      [kind |-> "DoubleMLData", z_cols |-> FALSE, d_zero_one |-> FALSE],
      [kind |-> "DoubleMLClusterData", z_cols |-> FALSE, d_zero_one |-> TRUE],
      [kind |-> "DataFrame", z_cols |-> FALSE, d_zero_one |-> TRUE] }

CtorArgs ==
    [data : DataSet,
     score : {"PQ", "IV-type"},
     quantile : {PyFloat(5), PyFloat(0), PyFloat(10), PyInt(1)},
     treatment : {PyInt(0), PyInt(1), PyInt(2), PyFloat(10)},
     h : {PyNone, PyFloat(5), PyFloat(0), PyFloat(0 - 5), PyInt(1), FloatNaN},
     normalize : {PyBool(TRUE), PyBool(FALSE), PyInt(1)},
     trimming_rule : {"truncate", "discard"},
     trimming_threshold : {PyFloat(1), PyFloat(0), PyFloat(5), PyInt(0)},
     ml_g : {"classifier", "regressor"}]

\* lines 116-122: DoubleML.__init__ takes the data object and sets
\* _is_cluster_data.
SuperInit(a) ==
    IF a.data.kind \notin {"DoubleMLData", "DoubleMLClusterData"} THEN "TypeError" ELSE ""

\* lines 127-128: h defaults to np.power(n_obs, -0.2), a positive float.
DefaultBandwidth(h) == IF h = PyNone THEN PyFloat(6) ELSE h

\* lines 131-132
CheckCluster(a) ==
    IF a.data.kind = "DoubleMLClusterData" THEN "NotImplementedError" ELSE ""

\* lines 335-341: _check_data
CheckData(data) ==
    IF data.kind \notin {"DoubleMLData", "DoubleMLClusterData"} THEN "TypeError"
    ELSE IF data.z_cols THEN "ValueError"
    ELSE IF ~data.d_zero_one THEN "ValueError"
    ELSE ""

\* line 136: _check_score(self.score, ['PQ'])
CheckScore(score) == IF score # "PQ" THEN "ValueError" ELSE ""

\* line 137: _check_quantile
CheckQuantile(q) ==
    IF ~IsInstance(q, "float") THEN "TypeError"
    ELSE IF Le(q, 0) \/ Ge(q, 10) THEN "ValueError"
    ELSE ""

\* line 138: _check_treatment
CheckTreatment(t) ==
    IF ~IsInstance(t, "int") THEN "TypeError"
    ELSE IF t.v # 0 /\ t.v # 10 THEN "ValueError"
    ELSE ""

CheckBandwidth_TypeOnly(bandwidth) ==
    IF ~IsInstance(bandwidth, "float") THEN "TypeError" ELSE ""

\* lines 343-351: _check_bandwidth
CheckBandwidth(bandwidth) ==
    IF ~IsInstance(bandwidth, "float") THEN "TypeError"
    ELSE IF Le(bandwidth, 0) THEN "ValueError"
    ELSE ""

\* lines 141-143
CheckNormalize(normalize) ==
    IF ~IsInstance(normalize, "bool") THEN "TypeError" ELSE ""

\* lines 150-152: _check_trimming
CheckTrimming(rule, threshold) ==
    IF rule # "truncate" THEN "ValueError"
    ELSE IF ~IsInstance(threshold, "float") THEN "TypeError"
    ELSE IF Le(threshold, 0) \/ Ge(threshold, 5) THEN "ValueError"
    ELSE ""

\* lines 154-155: _check_learner(..., regressor=False, classifier=True)
CheckLearner(learner) == IF learner # "classifier" THEN "TypeError" ELSE ""

\* The constructor, as the object it leaves: where it stopped (at), what it
\* raised (err), the bandwidth it stored.
CtorOutcome(a) ==
    LET h == DefaultBandwidth(a.h)
        steps == << <<"super", SuperInit(a)>>,
                    <<"cluster", CheckCluster(a)>>,
                    <<"check_data", CheckData(a.data)>>,
                    <<"score", CheckScore(a.score)>>,
                    <<"quantile", CheckQuantile(a.quantile)>>,
                    <<"treatment", CheckTreatment(a.treatment)>>,
                    <<"bandwidth", CheckBandwidth(h)>>,
                    <<"normalize", CheckNormalize(a.normalize)>>,
                    <<"trimming", CheckTrimming(a.trimming_rule, a.trimming_threshold)>>,
                    <<"learner", CheckLearner(a.ml_g)>> >>
        failing == {k \in 1..Len(steps) : steps[k][2] # ""}
    IN  IF failing = {}
        THEN [pc |-> "constructed", err |-> "", at |-> "", args |-> a, h |-> h]
        ELSE LET k == CHOOSE j \in failing : \A j2 \in failing : j <= j2
             IN  [pc |-> "raised", err |-> steps[k][2], at |-> steps[k][1], args |-> a,
                  h |-> IF k = 1 THEN a.h ELSE h]

\* DoubleMLPQ(...)
Construct ==
    /\ ctor.pc = "off"
    /\ \E a \in CtorArgs : ctor' = CtorOutcome(a)
    /\ UNCHANGED <<nuisance_vars, boot, evals>>

\* line 259: fit() enters _nuisance_est on a constructed object.
EnterNuisanceEst ==
    /\ ctor.pc = "constructed"
    /\ ctor' = [ctor EXCEPT !.pc = "nuisance_est"]
    /\ UNCHANGED <<nuisance_vars, boot, evals>>

\* The test sets are pairwise disjoint and cover the rows.
IsPartitionOfRows(smpls) ==
    /\ \A j, k \in 1..Len(smpls) : j # k => smpls[j].test \cap smpls[k].test = {}
    /\ UNION {smpls[k].test : k \in 1..Len(smpls)} = Rows

\* One estimation problem, for the runs that look at the constructor or the
\* bootstrap only.
InitFixed ==
    /\ InitEst
    /\ cfg.ds = "A" /\ cfg.treatment = 1 /\ cfg.tau = TauExact
    /\ cfg.qd = 2 /\ cfg.shuffle = 1 /\ IsPartitionOfRows(cfg.smpls)

NextCtor ==
    \/ Construct
    \/ EnterNuisanceEst

InitCtor ==
    /\ InitFixed
    /\ ctor = CtorOff
    /\ boot = BootOff
    /\ evals = EvalsOff

SpecCtor == InitCtor /\ [][NextCtor]_vars

(***************************************************************************)
(* The multiplier bootstrap of a fitted object and its reference           *)
(* computation, as the test fixture drives them: np.random.seed, the       *)
(* manual bootstrap, np.random.seed, obj.bootstrap(method, n_boot_rep).    *)
(* The generator is a congruential generator with 16 states; a draw is a   *)
(* fraction <<numerator, denominator>>.                                    *)
(***************************************************************************)
MaxBootCalls == 3

BootMethods == {"Bayes", "normal", "wild"}

\* np.random.seed(3141), and another seed.
SeedSet == {3141 % 16, 12}

n_boot_rep == 2

\* The fitted objects: the scores psi of three observations, the mean J of
\* the score derivative, the coefficient and its standard error.
FittedSet ==
    [psi : { <<2, 0 - 1, 0 - 1>>, <<3, 0 - 2, 1>> }, J : {0 - 2}, coef : {20}, se : {3}]

\* One step of the generator.
NextRandom(s) == (5 * s + 3) % 16

\* The weight a generator state gives under each scheme: exponential minus
\* one, standard normal, and -1 or 1.
Weight(method, u) ==
    IF method = "Bayes" THEN (u % 4) - 1
    ELSE IF method = "normal" THEN (u % 5) - 2
    ELSE IF u < 8 THEN 0 - 1 ELSE 1

RECURSIVE Advance(_, _)
Advance(s, k) == IF k = 0 THEN s ELSE Advance(NextRandom(s), k - 1)

\* The n_boot_rep x n_obs weights drawn from generator state s, row by row.
DrawWeights(method, s, n) ==
    [b \in 1..n_boot_rep |->
       [i \in 1..n |-> Weight(method, Advance(s, (b - 1) * n + i))]]

RECURSIVE Dot(_, _, _)
Dot(w, psi, k) == IF k = 0 THEN 0 ELSE w[k] * psi[k] + Dot(w, psi, k - 1)

BootstrapDraws_Unseeded(fitted, method, s) ==
    LET n == Len(fitted.psi)
        w == DrawWeights(method, 0, n)
    IN  [boot_coef |-> [b \in 1..n_boot_rep |-> <<Dot(w[b], fitted.psi, n), n * fitted.J>>],
         boot_t_stat |-> [b \in 1..n_boot_rep |->
                            <<Dot(w[b], fitted.psi, n), n * fitted.J * fitted.se>>],
         rng |-> s]

\* obj.bootstrap(method, n_boot_rep): boot_coef = weights . psi / (n * J),
\* boot_t_stat = weights . psi / (n * J * se); the generator has advanced by
\* the draws.
BootstrapDraws(fitted, method, s) ==
    LET n == Len(fitted.psi)
        w == DrawWeights(method, s, n)
    IN  [boot_coef |-> [b \in 1..n_boot_rep |-> <<Dot(w[b], fitted.psi, n), n * fitted.J>>],
         boot_t_stat |-> [b \in 1..n_boot_rep |->
                            <<Dot(w[b], fitted.psi, n), n * fitted.J * fitted.se>>],
         rng |-> Advance(s, n_boot_rep * n)]

\* The reference computation: draw by draw, mean(weights * psi) / J and
\* mean(weights * psi) / (J * se).
ManualDraws(fitted, method, s) ==
    LET n == Len(fitted.psi)
        row(b) == [i \in 1..n |-> Weight(method, Advance(s, (b - 1) * n + i))]
        mean(b) == <<Dot(row(b), fitted.psi, n), n>>
    IN  [boot_coef |-> [b \in 1..n_boot_rep |-> <<mean(b)[1], mean(b)[2] * fitted.J>>],
         boot_t_stat |-> [b \in 1..n_boot_rep |->
                            <<mean(b)[1], mean(b)[2] * (fitted.J * fitted.se)>>],
         rng |-> Advance(s, n_boot_rep * n)]

\* np.random.seed(s)
SeedRng ==
    /\ boot.pc = "fitted"
    /\ boot.calls < MaxBootCalls
    /\ \E s \in SeedSet : boot' = [boot EXCEPT !.rng = s]
    /\ UNCHANGED <<nuisance_vars, ctor, evals>>

\* The reference bootstrap, from the scores, coefficient and standard error
\* of the fit.
ManualBoot ==
    /\ boot.pc = "fitted"
    /\ boot.calls < MaxBootCalls
    /\ \E method \in BootMethods :
          LET r == ManualDraws(boot.fitted, method, boot.rng)
          IN  boot' = [boot EXCEPT
                         !.rng = r.rng, !.calls = @ + 1,
                         !.log = @ \cup { [k |-> boot.calls + 1, who |-> "manual",
                                           method |-> method, rng0 |-> boot.rng,
                                           boot_coef |-> r.boot_coef,
                                           boot_t_stat |-> r.boot_t_stat] }]
    /\ UNCHANGED <<nuisance_vars, ctor, evals>>

\* obj.bootstrap(method=method, n_boot_rep=n_boot_rep), from the object's own
\* scores and standard error; it sets boot_coef and boot_t_stat only.
EngineBootstrap ==
    /\ boot.pc = "fitted"
    /\ boot.calls < MaxBootCalls
    /\ \E method \in BootMethods :
          LET r == BootstrapDraws([boot.fitted EXCEPT !.coef = boot.coef, !.se = boot.se],
                                  method, boot.rng)
          IN  boot' = [boot EXCEPT
                         !.rng = r.rng, !.calls = @ + 1,
                         !.boot_coef = r.boot_coef, !.boot_t_stat = r.boot_t_stat,
                         !.log = @ \cup { [k |-> boot.calls + 1, who |-> "engine",
                                           method |-> method, rng0 |-> boot.rng,
                                           boot_coef |-> r.boot_coef,
                                           boot_t_stat |-> r.boot_t_stat] }]
    /\ UNCHANGED <<nuisance_vars, ctor, evals>>

InitBoot ==
    /\ InitFixed
    /\ ctor = CtorOff
    /\ evals = EvalsOff
    /\ \E f \in FittedSet :
          boot = [pc |-> "fitted", fitted |-> f, coef |-> f.coef, se |-> f.se, rng |-> 0,
                  calls |-> 0, boot_coef |-> <<>>, boot_t_stat |-> <<>>, log |-> {}]

NextBoot ==
    \/ SeedRng
    \/ ManualBoot
    \/ EngineBootstrap

SpecBoot == InitBoot /\ [][NextBoot]_vars

C2_FilledExactlyOnce ==
    IsPartitionOfRows(cfg.smpls) =>
       LET Processed == UNION {cfg.smpls[k].test : k \in 1..i_fold}
       IN
       /\ \A r \in Rows :
             /\ writes.g[r] = (IF r \in Processed THEN 1 ELSE 0)
             /\ writes.m[r] = (IF r \in Processed THEN 1 ELSE 0)
             /\ (g_hat[r] # NaN) <=> (r \in Processed)
             /\ (m_hat[r] # NaN) <=> (r \in Processed)
       /\ pc \in {"final", "returned"} => Processed = Rows

C2_Witness ==
    /\ IsPartitionOfRows(cfg.smpls)
    /\ pc = "returned"
    /\ \A r \in Rows : writes.g[r] = 1 /\ writes.m[r] = 1 /\ g_hat[r] # NaN /\ m_hat[r] # NaN

\* C3: every propensity used as a divisor, m_hat_prelim in the IPW moment and
\* m of the score elements, is trim(p) for treatment 1 and trim(1 - p) for
\* treatment 0, so it lies in [tau, 1 - tau] and is strictly positive.
C3_TrimmedTargetPropensity ==
    LET target(p) == IF cfg.treatment = 0 THEN Sub1(p) ELSE p
        inrange(v) == cfg.tau <= v /\ v <= Sub1(cfg.tau) /\ v > 0
    IN  /\ \A r \in DOMAIN fold.m_hat_prelim :
              /\ fold.m_hat_prelim[r] = Trimm(target(fold.p_prelim[r]), cfg.tau)
              /\ inrange(fold.m_hat_prelim[r])
        /\ psi_elements.returned =>
              \A r \in {t \in Rows : psi_elements.m[t] # NaN} :
                 /\ inrange(psi_elements.m[r])
                 /\ r \in fold.test
                       => psi_elements.m[r] = Trimm(target(fold.m_pred[r]), cfg.tau)

\* C4: no learner instance is fitted more than once: every fit of ml_g and
\* of ml_m is on a fresh clone, never on an instance an earlier fold, pass or
\* call has fitted; fit_count counts the fits of the instances the object stores.
C4_LearnersFreshlyCloned ==
    fit_count.ml_g <= 1 /\ fit_count.ml_m <= 1

\* C6: _nuisance_tuning raises NotImplementedError for every argument
\* combination, never returns, and leaves the object's state unchanged.
C6_TuningRaises ==
    [][ (tune' # tune) =>
          /\ tune'.called /\ tune'.ended = "NotImplementedError"
          /\ pc' = "raised" /\ err' = "NotImplementedError"
          /\ UNCHANGED <<cfg, rep, i_fold, g_hat, m_hat, coef_start_val, fit_count,
                         fold, writes, psi_elements>> ]_vars

C6_Witness ==
    /\ tune.called /\ tune.ended = "NotImplementedError"
    /\ tune.search_mode = "randomized_search" /\ tune.tune_on_folds
    /\ rep = 1 /\ psi_elements.returned

\* C8 (as stated): in every pass, the root search of fold 0 starts from the
\* empirical quantile set at construction, and that of fold i > 0 from the
\* ipw_est of fold i - 1.
C8_WarmStartPerPass ==
    (fold.start_used # NaN) =>
       fold.start_used = (IF fold.i = 0 THEN CoefStartInit ELSE fold.prev_ipw_est)

\* C8 (amended): only the first root search after construction starts from
\* the empirical quantile; every later one, fold 0 of a later pass included,
\* starts from the ipw_est of the root search completed just before it.
C8_WarmStartChain ==
    (fold.start_used # NaN) =>
       /\ (rep = 1 /\ fold.i = 0) <=> (fold.prev_ipw_est = NaN)
       /\ fold.start_used = (IF rep = 1 /\ fold.i = 0 THEN CoefStartInit
                             ELSE fold.prev_ipw_est)

C8_Witness ==
    /\ rep = 2 /\ fold.i = 0
    /\ fold.start_used # NaN
    /\ fold.start_used = fold.prev_ipw_est
    /\ fold.start_used # CoefStartInit

\* C9: the root search of a fold gives the same result, hence the same
\* targets and predictions of ml_g, whether it starts from the previous
\* fold's solution or from the initial start value.
C9_SeedIndependent ==
    (fold.start_used # NaN /\ ~IpwIsNaN(fold.train_1, fold.m_hat_prelim)) =>
       LET rows == {r \in fold.train_2 : d[r] = cfg.treatment}
           GPred(t) == PredictZeroOnePropensity(Fit(rows, GTargets(t)), fold.test)
       IN  /\ (fold.roots = {}) <=> (fold.indep_roots = {})
           /\ {GPred(t) : t \in fold.roots} = {GPred(t) : t \in fold.indep_roots}

C5_ConfigErrorsAtConstruction ==
    (ctor.pc # "off") =>
       LET a == ctor.args
           q == a.quantile
           t == a.treatment
           thr == a.trimming_threshold
           bad_data == a.data.kind # "DoubleMLData" \/ a.data.z_cols \/ ~a.data.d_zero_one
           bad_quantile == q.type # "float" \/ q.v <= 0 \/ q.v >= 10
           bad_treatment == ~(t.type \in {"int", "bool"} /\ t.v \in {0, 10})
           bad_h == a.h # PyNone /\ (a.h.type # "float" \/ (~a.h.nan /\ a.h.v <= 0))
           bad_normalize == a.normalize.type # "bool"
           bad_trimming == a.trimming_rule # "truncate" \/ thr.type # "float"
                              \/ thr.v <= 0 \/ thr.v >= 5
           invalid == bad_data \/ a.score # "PQ" \/ bad_quantile \/ bad_treatment
                         \/ bad_h \/ bad_normalize \/ bad_trimming
       IN  /\ invalid => ctor.pc = "raised" /\ ctor.err # ""
           /\ ctor.pc \in {"constructed", "nuisance_est"} => ~invalid
           /\ a.data.kind = "DoubleMLClusterData" => ctor.err = "NotImplementedError"
           /\ ctor.at = "bandwidth"
                 => ctor.err = (IF a.h.type # "float" THEN "TypeError" ELSE "ValueError")
           /\ ctor.at = "normalize" => ctor.err = "TypeError"
           /\ (a.h = PyNone /\ ctor.at # "super")
                 => ctor.h.type = "float" /\ ctor.h.v > 0 /\ ctor.at # "bandwidth"

C5_Witness ==
    /\ ctor.pc = "raised"
    /\ ctor.at = "bandwidth" /\ ctor.err = "ValueError"
    /\ ctor.args.h = PyFloat(0)
    /\ ctor.args.normalize.type # "bool"

MaxEvals == 3

FMul(a, b) == <<a[1] * b[1], a[2] * b[2]>>
FDiv(a, b) == <<a[1] * b[2], a[2] * b[1]>>
FAdd(a, b) == <<a[1] * b[2] + b[1] * a[2], a[2] * b[2]>>
FSub(a, b) == <<a[1] * b[2] - b[1] * a[2], a[2] * b[2]>>

\* Elementwise equality of two arrays of the same numbers.
FracEq(a, b) ==
    IF a[2] = 0 \/ b[2] = 0 THEN a[2] = 0 /\ b[2] = 0 /\ (a[1] = 0) = (b[1] = 0)
    ELSE a[1] * b[2] = b[1] * a[2]

ArrayEq(u, v) == Len(u) = Len(v) /\ \A t \in 1..Len(u) : FracEq(u[t], v[t])

RECURSIVE FSum(_)
FSum(u) == IF u = <<>> THEN <<0, 1>> ELSE FAdd(u[1], FSum(Tail(u)))

\* ndarray.mean()
Mean(u) == FDiv(FSum(u), <<Len(u), 1>>)

\* Whole numbers and quarters as array elements.
Whole(u) == [t \in 1..Len(u) |-> <<u[t], 1>>]
Quarters(u) == [t \in 1..Len(u) |-> <<u[t], 4>>]

\* The score elements the evaluations run on: four rows; m lies strictly
\* between 0 and 1 as the trimmed propensity does.
ScoreBundles ==
    [ind_d : {Whole(<<1, 0, 1, 0>>), Whole(<<1, 1, 0, 0>>)},
     g     : {Quarters(<<2, 1, 3, 2>>)},
     m     : {Quarters(<<2, 2, 2, 2>>), Quarters(<<1, 2, 3, 2>>)},
     y     : {Whole(<<1, 2, 3, 4>>)}]

\* Candidate coefficients and row subsets handed to the evaluations.
Thetas == {2, 3}
NoInds == [given |-> FALSE, rows |-> <<>>]
IndsSet == {NoInds, [given |-> TRUE, rows |-> <<1, 2>>],
            [given |-> TRUE, rows |-> <<3, 4>>]}

\* A new array on the heap; its id.
NextId(heap) == 1 + CHOOSE k \in DOMAIN heap : \A j \in DOMAIN heap : j <= k
Alloc(heap, u) == [heap |-> heap @@ (NextId(heap) :> u), id |-> NextId(heap)]

\* lines 220-229, 235-242: name = psi_elements[key], and with inds given
\* name = psi_elements[key][inds], which copies the selected rows.
Index(heap, id, inds) ==
    IF inds.given
    THEN Alloc(heap, [t \in 1..Len(inds.rows) |-> heap[id][inds.rows[t]]])
    ELSE [heap |-> heap, id |-> id]

\* line 231: score = ind_d * ((y <= coef) - g) / m + g - self.quantile
ComputeScoreValue(obj, heap, psi, coef, inds) ==
    LET a1 == Index(heap, psi.ind_d, inds)
        a2 == Index(a1.heap, psi.g, inds)
        a3 == Index(a2.heap, psi.m, inds)
        a4 == Index(a3.heap, psi.y, inds)
        H == a4.heap
        le(v) == IF v[1] <= coef * v[2] THEN <<1, 1>> ELSE <<0, 1>>
    IN  [heap |-> H,
         value |-> [t \in 1..Len(H[a1.id]) |->
                       FSub(FAdd(FDiv(FMul(H[a1.id][t],
                                           FSub(le(H[a4.id][t]), H[a2.id][t])),
                                      H[a3.id][t]),
                                 H[a2.id][t]),
                            obj.quantile)]]

\* The same statement writing its result into the array of ind_d.
ScoreWeights_InPlace(heap, ind_id, m_id) ==
    [heap |-> [heap EXCEPT ![ind_id] =
                  [t \in 1..Len(@) |-> FDiv(@[t], heap[m_id][t])]],
     id |-> ind_id]

\* line 244: score_weights = ind_d / m, a new array.
ScoreWeights(heap, ind_id, m_id) ==
    Alloc(heap, [t \in 1..Len(heap[ind_id]) |-> FDiv(heap[ind_id][t], heap[m_id][t])])

\* line 250: the standard normal density at u = d / h, d a whole number and
\* h in {1, 2}, in hundredths.
KernelEst(dd, h) ==
    LET twice == (2 * Abs(dd)) \div h
    IN  IF twice = 0 THEN <<40, 100>>
        ELSE IF twice = 1 THEN <<35, 100>>
        ELSE IF twice = 2 THEN <<24, 100>>
        ELSE IF twice = 3 THEN <<13, 100>>
        ELSE IF twice = 4 THEN <<5, 100>>
        ELSE <<0, 100>>

\* lines 235-253: the derivative; score_weights is returned with it.
ComputeScoreDerivValue(obj, heap, psi, coef, inds) ==
    LET a1 == Index(heap, psi.ind_d, inds)
        a2 == Index(a1.heap, psi.m, inds)
        a3 == Index(a2.heap, psi.y, inds)
        w == ScoreWeights(a3.heap, a1.id, a2.id)
        normalization == Mean(w.heap[w.id])
        H == IF obj.normalize
             THEN [w.heap EXCEPT ![w.id] =
                      [t \in 1..Len(@) |-> FDiv(@[t], normalization)]]
             ELSE w.heap
    IN  [heap |-> H,
         score_weights |-> H[w.id],
         value |-> [t \in 1..Len(H[w.id]) |->
                       FDiv(FMul(H[w.id][t],
                                 KernelEst(H[a3.id][t][1] - coef, obj.h)),
                            <<obj.h, 1>>)]]

\* The arrays the bundle names, after a call: the call's own arrays are gone.
Kept(heap, psi) == [id \in {psi.ind_d, psi.g, psi.m, psi.y} |-> heap[id]]

\* A call, its result recorded: the first result of each (kind, coef, inds)
\* is kept.
Record(kind, coef, inds, run, weights) ==
    LET seen == \E f \in evals.first :
                   f.kind = kind /\ f.theta = coef /\ f.inds = inds
        entry == [kind |-> kind, theta |-> coef, inds |-> inds,
                  value |-> run.value]
    IN  evals' = [evals EXCEPT
                     !.heap = Kept(run.heap, evals.psi),
                     !.first = IF seen THEN @ ELSE @ \cup {entry},
                     !.last = entry @@ [repeat |-> seen, score_weights |-> weights],
                     !.n = @ + 1]

\* lines 219-232: _compute_score(psi_elements, coef, inds)
ComputeScore(coef, inds) ==
    /\ evals.pc = "ready"
    /\ evals.n < MaxEvals
    /\ Record("score", coef, inds,
              ComputeScoreValue(evals.obj, evals.heap, evals.psi, coef, inds), <<>>)
    /\ UNCHANGED <<nuisance_vars, ctor, boot>>

\* lines 234-253: _compute_score_deriv(psi_elements, coef, inds)
ComputeScoreDeriv(coef, inds) ==
    /\ evals.pc = "ready"
    /\ evals.n < MaxEvals
    /\ LET run == ComputeScoreDerivValue(evals.obj, evals.heap, evals.psi, coef, inds)
       IN  Record("deriv", coef, inds, run, run.score_weights)
    /\ UNCHANGED <<nuisance_vars, ctor, boot>>

\* A fitted object and its score elements, before any evaluation.
InitScore ==
    /\ InitFixed
    /\ ctor = CtorOff
    /\ boot = BootOff
    /\ \E b \in ScoreBundles, nrm \in BOOLEAN, bw \in {1, 2} :
          evals = [pc |-> "ready",
                   heap |-> (1 :> b.ind_d) @@ (2 :> b.g) @@ (3 :> b.m) @@ (4 :> b.y),
                   psi |-> [ind_d |-> 1, g |-> 2, m |-> 3, y |-> 4],
                   psi0 |-> b,
                   obj |-> [normalize |-> nrm, h |-> bw, quantile |-> <<1, 2>>],
                   obj0 |-> [normalize |-> nrm, h |-> bw, quantile |-> <<1, 2>>],
                   first |-> {},
                   last |-> [kind |-> "none", theta |-> 0, inds |-> NoInds,
                             value |-> <<>>, repeat |-> FALSE,
                             score_weights |-> <<>>],
                   n |-> 0]

NextScore ==
    \E coef \in Thetas, inds \in IndsSet :
       \/ ComputeScore(coef, inds)
       \/ ComputeScoreDeriv(coef, inds)

SpecScore == InitScore /\ [][NextScore]_vars

\* C11: with normalize enabled the derivative on a row subset inds equals the
\* rows inds of the derivative on the whole sample (the weights indicator/m
\* are divided by their mean over all rows in both), and with normalize
\* disabled the weights are exactly indicator/m.
C11_SubsetIsRestriction ==
    (evals.pc = "ready" /\ evals.last.kind = "deriv") =>
       LET l == evals.last
           full == ComputeScoreDerivValue(evals.obj, evals.heap, evals.psi,
                                          l.theta, NoInds)
           rows == IF l.inds.given THEN l.inds.rows ELSE <<1, 2, 3, 4>>
       IN  /\ ArrayEq(l.value, [t \in 1..Len(rows) |-> full.value[rows[t]]])
           /\ ~evals.obj.normalize =>
                 \A t \in 1..Len(rows) :
                    l.score_weights[t] = FDiv(evals.psi0.ind_d[rows[t]],
                                              evals.psi0.m[rows[t]])

\* C12: score and derivative evaluations, with inds given or None and with
\* normalize true or false, leave the arrays ind_d, g, m, y of the bundle and
\* the object's fields as they were, and a score evaluated again returns the
\* values its first evaluation with the same arguments returned.
C12_EvaluationsArePure ==
    (evals.pc = "ready") =>
       /\ \A key \in {"ind_d", "g", "m", "y"} :
             evals.heap[evals.psi[key]] = evals.psi0[key]
       /\ DOMAIN evals.heap = {evals.psi[key] : key \in {"ind_d", "g", "m", "y"}}
       /\ evals.obj = evals.obj0
       /\ (evals.last.kind = "score") =>
             \E f \in evals.first :
                /\ f.kind = "score"
                /\ f.theta = evals.last.theta
                /\ f.inds = evals.last.inds
                /\ f.value = evals.last.value

C12_Witness ==
    /\ evals.pc = "ready"
    /\ evals.obj.normalize
    /\ evals.last.kind = "score"
    /\ evals.last.repeat
    /\ ~evals.last.inds.given
    /\ \E f \in evals.first :
          f.kind = "deriv" /\ ~f.inds.given /\ f.theta # evals.last.theta

====
